---- MODULE Spec2Model ----
(***************************************************************************)
(* Model of lib/set.js of node-migrate (MySQL-backed variant): the         *)
(* migration Set, its load/save against the single `migration` row, and    *)
(* the sequential drain of _migrate.                                       *)
(*                                                                         *)
(* A migration object is identified by its title (titles are unique in a   *)
(* set); array indices are the 0-based indices of JavaScript.              *)
(***************************************************************************)
EXTENDS Integers, Sequences, FiniteSets, TLC

\* ------------------------------------------------------------------ bounds
\* Largest number of migration files that exist in the project.
MaxN == 2
\* Number of up/down runs performed in all, by all Sets together.
MaxRuns == 3
\* Number of Sets constructed after the first one (process restarts).
MaxSets == 1

\* --------------------------------------------------------------- constants
\* JavaScript `undefined`: the value of an omitted migrationName argument.
Undefined == "<undefined>"
\* A title that no migration file has.
Nonexistent == "nonexistent"
\* The titles of the migration files, "1", "2", ...
Titles == {ToString(i) : i \in 1..MaxN}
\* Values a caller may pass as migrationName to up()/down().
Names == Titles \cup {Undefined, "", Nonexistent}

VARIABLES
    migrations,     \* this.migrations: the registered titles, in order
    pos,            \* this.pos
    db,             \* module-level `db`: state of the connection it refers to
    record,         \* the row id=1 of table `migration`, or NoRecord
    pc,             \* where the run is suspended
    direction,      \* argument `direction` of the run in progress
    migrationName,  \* argument `migrationName` of the run in progress
    slice,          \* local `migrations` of _migrate: entries not yet shifted
    current,        \* the migration whose operation is outstanding
    events,         \* events emitted by the current/last run, in order
    calls,          \* migration operations invoked by the current/last run
    startPos,       \* this.pos on entry to _migrate (the loaded position)
    fullSlice,      \* the slice as _migrate computed it
    loaded,         \* the object load() passed to its callback, or NoRecord
    recordBefore,   \* the persisted row when the run started
    outcome,        \* how the current/last run ended
    loadErr,        \* what the SELECT of the run reported: "pending", "none" or a code
    failed,         \* slice index of the step that reported an error, or -1
    outstanding,    \* migrations whose operation was invoked and has not called back
    lastOp,         \* per title: the operation that last completed without error in a run of this Set
    prev,           \* summary of the run of this Set before the current one, when that run saved
    nruns,          \* runs started so far
    nsets           \* Sets constructed after the first

vars == <<migrations, pos, db, record, pc, direction, migrationName, slice,
          current, events, calls, startPos, fullSlice, loaded, recordBefore,
          outcome, loadErr, failed, outstanding, lastOp, prev, nruns, nsets>>

\* ------------------------------------------------------------ pure helpers
Min(a, b) == IF a < b THEN a ELSE b
Max(a, b) == IF a > b THEN a ELSE b

\* Array.prototype.slice(start, end): negative arguments count from the end,
\* both are clamped to [0, length]; the result holds indices start..end-1.
JsSlice(arr, start, end) ==
    LET len == Len(arr)
        k   == IF start < 0 THEN Max(len + start, 0) ELSE Min(start, len)
        fin == IF end < 0 THEN Max(len + end, 0) ELSE Min(end, len)
    IN  [j \in 1..Max(fin - k, 0) |-> arr[k + j]]

\* Array.prototype.reverse()
Reverse(arr) == [j \in 1..Len(arr) |-> arr[Len(arr) + 1 - j]]

\* The registries a project can have: the migration files are loaded in
\* name order, so a registry is an increasing selection of the titles.
RECURSIVE Selections(_)
Selections(n) ==
    IF n = 0 THEN {<<>>}
    ELSE Selections(n - 1) \cup {Append(s, ToString(n)) : s \in Selections(n - 1)}
Registries == Selections(MaxN)

\* JavaScript truthiness of a migrationName: undefined and "" are falsy.
Falsy(name) == name \in {Undefined, ""}

\* positionOfMigration(migrations, filename): 0-based index of the first
\* migration with that title, or -1.
positionOfMigration(migs, filename) ==
    IF \E i \in 1..Len(migs) : migs[i] = filename
    THEN (CHOOSE i \in 1..Len(migs) :
              /\ migs[i] = filename
              /\ \A j \in 1..(i - 1) : migs[j] # filename) - 1
    ELSE -1

\* Variant of stringify that serialises the local `migrations` of _migrate
\* (the slice still to run) in place of this.migrations.
stringify_local(migs) ==
    [kind |-> "json", value |-> [j \in 1..Len(slice) |-> [title |-> slice[j]]]]

\* JSON.stringify(this.migrations): an array of objects; the function-valued
\* fields up/down of a migration are dropped, the title is kept.
stringify(migs) == [kind |-> "json", value |-> [j \in 1..Len(migs) |-> [title |-> migs[j]]]]
\* A stored payload that JSON.parse rejects.
Garbage == [kind |-> "garbage", value |-> <<>>]
\* The literal '[]' of the default row.
EmptyArrayText == [kind |-> "json", value |-> <<>>]
\* Variant of ParseOk without the try/catch: every payload counts as parsed.
ParseOk_lenient(text) == TRUE

\* JSON.parse succeeds exactly on well-formed text.
ParseOk(text) == text.kind = "json"
Parse(text) == text.value

\* Absence of the row id=1 (result[0] is undefined).
NoRecord == [present |-> FALSE]
Row(text, p) == [present |-> TRUE, migrations |-> text, pos |-> p]
\* Variant of ResultOrDefault without the default row: the payload of an
\* absent row is undefined, which JSON.parse rejects.
ResultOrDefault_noDefault(rec) ==
    IF rec.present THEN rec ELSE [present |-> TRUE, migrations |-> [kind |-> "garbage", value |-> <<>>], pos |-> 0]

\* result[0] || { migrations: '[]', pos: 0 }
ResultOrDefault(rec) == IF rec.present THEN rec ELSE Row(EmptyArrayText, 0)

Event(type, title) == [type |-> type, title |-> title]
EvLoad == Event("load", Undefined)
EvComplete == Event("complete", Undefined)
EvSave == Event("save", Undefined)
EvError == Event("error", Undefined)
EvMigration(title) == Event("migration", title)

\* ------------------------------------------------------------------- state
\* The summary kept of a run that ended with a successful save; NoPrev when
\* the Set has run nothing or its last run ended otherwise.
Summary(dir, name, p, cl, out) ==
    [direction |-> dir, migrationName |-> name, startPos |-> p, calls |-> cl,
     outcome |-> out]
NoPrev == Summary("up", Undefined, 0, <<>>, "none")

\* A table that holds no row, or a row whose payload was damaged outside
\* the program.
InitialRecords == {NoRecord, Row(Garbage, 0)}

Init ==
    /\ migrations \in Registries
    /\ pos = 0
    /\ db = "undefined"
    /\ record \in InitialRecords
    /\ pc = "idle"
    /\ direction = "up"
    /\ migrationName = Undefined
    /\ slice = <<>>
    /\ current = Undefined
    /\ events = <<>>
    /\ calls = <<>>
    /\ startPos = 0
    /\ fullSlice = <<>>
    /\ loaded = NoRecord
    /\ recordBefore = record
    /\ outcome = "none"
    /\ loadErr = "pending"
    /\ failed = -1
    /\ outstanding = {}
    /\ lastOp = [t \in Titles |-> "none"]
    /\ prev = NoPrev
    /\ nruns = 0
    /\ nsets = 0

\* ----------------------------------------------------------------- actions
\* Set.prototype.save: `db` is only undefined before the first connectDb; a
\* run reaches save() after load() has assigned it, so the query is issued
\* at once, otherwise the connection is made first.
save == IF db = "undefined" THEN "connecting-save" ELSE "saving"

\* Variant of next that does not wait for the callbacks: it invokes every
\* entry of the slice at once and goes on to complete and save.
next_noWait(sl, ev, cl, os) ==
    /\ events' = Append(ev \o [j \in 1..Len(sl) |-> EvMigration(sl[j])], EvComplete)
    /\ calls' = cl \o sl
    /\ current' = IF sl = <<>> THEN Undefined ELSE sl[Len(sl)]
    /\ slice' = <<>>
    /\ outstanding' = os \cup {sl[j] : j \in 1..Len(sl)}
    /\ pc' = save
    /\ UNCHANGED outcome

\* Variant of next that invokes the operation without emitting 'migration'.
next_noEvent(sl, ev, cl, os) ==
    IF sl = <<>>
    THEN /\ events' = Append(ev, EvComplete)
         /\ pc' = save
         /\ UNCHANGED outcome
         /\ calls' = cl
         /\ current' = Undefined
         /\ slice' = <<>>
         /\ outstanding' = os
    ELSE /\ events' = ev
         /\ calls' = Append(cl, Head(sl))
         /\ current' = Head(sl)
         /\ slice' = Tail(sl)
         /\ pc' = "running"
         /\ outstanding' = os \cup {Head(sl)}
         /\ UNCHANGED outcome

\* next(null, migrations.shift()) of _migrate, with `sl` the local slice
\* before the shift, `ev` the events, `cl` the invocations so far and `os`
\* the operations still outstanding.
next(sl, ev, cl, os) ==
    IF sl = <<>>
    THEN /\ events' = Append(ev, EvComplete)
         /\ pc' = save
         /\ UNCHANGED outcome
         /\ calls' = cl
         /\ current' = Undefined
         /\ slice' = <<>>
         /\ outstanding' = os
    ELSE /\ events' = Append(ev, EvMigration(Head(sl)))
         /\ calls' = Append(cl, Head(sl))
         /\ current' = Head(sl)
         /\ slice' = Tail(sl)
         /\ pc' = "running"
         /\ outstanding' = os \cup {Head(sl)}
         /\ UNCHANGED outcome

\* Variant of Slice whose end bound leaves the +1 out.
Slice_endExclusive(dir, migs, p, migrationPos) ==
    IF dir = "up"
    THEN JsSlice(migs, p, migrationPos)
    ELSE Reverse(JsSlice(migs, migrationPos, p))

\* Variant of Slice that does not reverse the down slice.
Slice_notReversed(dir, migs, p, migrationPos) ==
    IF dir = "up"
    THEN JsSlice(migs, p, migrationPos + 1)
    ELSE JsSlice(migs, migrationPos, p)

\* Variant of Slice whose down slice starts after the target.
Slice_downExclusive(dir, migs, p, migrationPos) ==
    IF dir = "up"
    THEN JsSlice(migs, p, migrationPos + 1)
    ELSE Reverse(JsSlice(migs, migrationPos + 1, p))

\* The slice _migrate computes from position p and target index migrationPos.
Slice(dir, migs, p, migrationPos) ==
    IF dir = "up"
    THEN JsSlice(migs, p, migrationPos + 1)
    ELSE Reverse(JsSlice(migs, migrationPos, p))

\* Variant of NewPos that assigns the slice length on the way up.
NewPos_assigned(dir, p, sl) == IF dir = "up" THEN Len(sl) ELSE p - Len(sl)

\* this.pos after `this.pos += migrations.length` / `-= migrations.length`.
NewPos(dir, p, sl) == IF dir = "up" THEN p + Len(sl) ELSE p - Len(sl)

\* The target index of _migrate; -1 when a given name is not registered.
MigrationPos(dir, migs, name) ==
    IF Falsy(name)
    THEN (IF dir = "up" THEN Len(migs) ELSE 0)
    ELSE positionOfMigration(migs, name)

\* Variant of _migrate that reports an unresolved name and goes on.
_migrate_noExit(p) ==
    LET migrationPos == MigrationPos(direction, migrations, migrationName)
        sl == Slice(direction, migrations, p, migrationPos)
    IN  /\ startPos' = p
        /\ pos' = NewPos(direction, p, sl)
        /\ fullSlice' = sl
        /\ next(sl, events, calls, outstanding)

\* Set.prototype._migrate entered with this.pos = p.  An unresolved name
\* prints to the console and ends the process (process.exit(1)): nothing
\* is emitted and the connection is never destroyed.
_migrate(p) ==
    LET migrationPos == MigrationPos(direction, migrations, migrationName)
        sl == Slice(direction, migrations, p, migrationPos)
    IN  /\ startPos' = p
        /\ IF migrationPos = -1
           THEN /\ pc' = "exited"
                /\ outcome' = "exit"
                /\ pos' = p
                /\ fullSlice' = <<>>
                /\ UNCHANGED <<events, calls, current, slice, outstanding>>
           ELSE /\ pos' = NewPos(direction, p, sl)
                /\ fullSlice' = sl
                /\ next(sl, events, calls, outstanding)

\* Set.prototype.migrate -> load(): emits 'load' and calls connectDb, which
\* replaces the module-level connection by a new one and starts connecting.
migrate(dir, name) ==
    /\ pc = "idle"
    /\ nruns < MaxRuns
    /\ nruns' = nruns + 1
    /\ direction' = dir
    /\ migrationName' = name
    /\ events' = <<EvLoad>>
    /\ calls' = <<>>
    /\ slice' = <<>>
    /\ fullSlice' = <<>>
    /\ current' = Undefined
    /\ startPos' = pos
    /\ loaded' = NoRecord
    /\ recordBefore' = record
    /\ outcome' = "running"
    /\ loadErr' = "pending"
    /\ failed' = -1
    /\ outstanding' = {}
    /\ prev' = IF outcome = "saved"
               THEN Summary(direction, migrationName, startPos, calls, outcome)
               ELSE NoPrev
    /\ db' = "connecting"
    /\ pc' = "connecting-load"
    /\ UNCHANGED <<migrations, pos, record, lastOp, nsets>>

up(migrationName_) == migrate("up", migrationName_)

down(migrationName_) == migrate("down", migrationName_)

\* handleConnection(err) with err set: emits 'error'; fn is never called.
ConnectFail ==
    /\ pc \in {"connecting-load", "connecting-save"}
    /\ events' = Append(events, EvError)
    /\ outcome' = "connect-error"
    /\ db' = "failed"
    /\ pc' = "idle"
    /\ UNCHANGED <<migrations, pos, record, direction, migrationName, slice,
                   current, calls, startPos, fullSlice, loaded, recordBefore,
                   loadErr, failed, outstanding, lastOp, prev, nruns, nsets>>

\* handleConnection(null): fn.call(self) issues the pending query.
ConnectOk ==
    /\ pc \in {"connecting-load", "connecting-save"}
    /\ db' = "connected"
    /\ pc' = IF pc = "connecting-load" THEN "loading" ELSE "saving"
    /\ UNCHANGED <<migrations, pos, record, direction, migrationName, slice,
                   current, events, calls, startPos, fullSlice, loaded,
                   recordBefore, outcome, loadErr, failed, outstanding, lastOp,
                   prev, nruns, nsets>>

\* The SELECT fails (callback of db.query in load, err set).  migrate() lets
\* an error whose code is 'ENOENT' through: the run goes on from the
\* in-memory position; any other error is emitted.
LoadQueryFail(code) ==
    /\ pc = "loading"
    /\ loadErr' = code
    /\ IF code # "ENOENT"
       THEN /\ events' = Append(events, EvError)
            /\ outcome' = "load-error"
            /\ pc' = "idle"
            /\ UNCHANGED <<pos, slice, current, calls, startPos, fullSlice,
                           outstanding>>
       ELSE _migrate(pos)
    /\ UNCHANGED <<migrations, db, record, direction, migrationName, loaded,
                   recordBefore, failed, lastOp, prev, nruns, nsets>>

\* The SELECT succeeds: default row, JSON.parse, then migrate()'s callback
\* assigns this.pos and enters _migrate.  A payload JSON.parse rejects is a
\* SyntaxError (no code 'ENOENT'), which migrate() emits.
LoadQueryOk ==
    /\ pc = "loading"
    /\ loadErr' = "none"
    /\ LET result == ResultOrDefault(record)
       IN  IF ~ParseOk(result.migrations)
           THEN /\ events' = Append(events, EvError)
                /\ outcome' = "load-error"
                /\ pc' = "idle"
                /\ UNCHANGED <<pos, slice, current, calls, startPos, fullSlice,
                               loaded, outstanding>>
           ELSE /\ loaded' = [present |-> TRUE,
                              migrations |-> Parse(result.migrations),
                              pos |-> result.pos]
                /\ _migrate(result.pos)
    /\ UNCHANGED <<migrations, db, record, direction, migrationName,
                   recordBefore, failed, lastOp, prev, nruns, nsets>>

\* Variant of StepCallback that emits the error and goes on with the slice.
StepCallback_continue(err) ==
    /\ pc = "running"
    /\ failed' = IF err THEN Len(calls) - 1 ELSE failed
    /\ lastOp' = IF err THEN lastOp ELSE [lastOp EXCEPT ![current] = direction]
    /\ next(slice, IF err THEN Append(events, EvError) ELSE events, calls,
            outstanding \ {current})
    /\ UNCHANGED <<migrations, pos, db, record, direction, migrationName,
                   startPos, fullSlice, loaded, recordBefore, loadErr, prev,
                   nruns, nsets>>

\* Variant of StepCallback that saves the position after a failed step.
StepCallback_saveOnError(err) ==
    /\ pc = "running"
    /\ IF err
       THEN /\ events' = Append(events, EvError)
            /\ failed' = Len(calls) - 1
            /\ pc' = save
            /\ outstanding' = outstanding \ {current}
            /\ UNCHANGED <<slice, current, calls, lastOp, outcome>>
       ELSE /\ lastOp' = [lastOp EXCEPT ![current] = direction]
            /\ next(slice, events, calls, outstanding \ {current})
            /\ UNCHANGED failed
    /\ UNCHANGED <<migrations, pos, db, record, direction, migrationName,
                   startPos, fullSlice, loaded, recordBefore, loadErr, prev,
                   nruns, nsets>>

\* The callback a migration's up/down operation is given, next(err, shift()).
\* An operation that calls back without error has completed (lastOp).
StepCallback(err) ==
    /\ pc = "running"
    /\ IF err
       THEN /\ events' = Append(events, EvError)
            /\ outcome' = "step-error"
            /\ failed' = Len(calls) - 1
            /\ pc' = "idle"
            /\ outstanding' = outstanding \ {current}
            /\ UNCHANGED <<slice, current, calls, lastOp>>
       ELSE /\ lastOp' = [lastOp EXCEPT ![current] = direction]
            /\ next(slice, events, calls, outstanding \ {current})
            /\ UNCHANGED failed
    /\ UNCHANGED <<migrations, pos, db, record, direction, migrationName,
                   startPos, fullSlice, loaded, recordBefore, loadErr, prev,
                   nruns, nsets>>

\* Set.prototype.disconnectDb, the callback of the upsert of save().  With
\* err set it emits 'error' and returns before db.destroy(); the failed
\* statement leaves the row as it was.
disconnectDb(err) ==
    /\ pc = "saving"
    /\ IF err
       THEN /\ events' = Append(events, EvError)
            /\ outcome' = "save-error"
            /\ UNCHANGED <<db, record>>
       ELSE /\ events' = Append(events, EvSave)
            /\ outcome' = "saved"
            /\ record' = Row(stringify(migrations), pos)
            /\ db' = "destroyed"
    /\ pc' = "idle"
    /\ UNCHANGED <<migrations, pos, direction, migrationName, slice, current,
                   calls, startPos, fullSlice, loaded, recordBefore, loadErr,
                   failed, outstanding, lastOp, prev, nruns, nsets>>

\* function Set(path): a new process constructs a new Set (pos 0, no
\* connection) and its caller registers the migration files present then.
Set(registry) ==
    /\ pc \in {"idle", "exited"}
    /\ nsets < MaxSets
    /\ nsets' = nsets + 1
    /\ migrations' = registry
    /\ pos' = 0
    /\ db' = "undefined"
    /\ pc' = "idle"
    /\ direction' = "up"
    /\ migrationName' = Undefined
    /\ slice' = <<>>
    /\ current' = Undefined
    /\ events' = <<>>
    /\ calls' = <<>>
    /\ startPos' = 0
    /\ fullSlice' = <<>>
    /\ loaded' = NoRecord
    /\ recordBefore' = record
    /\ outcome' = "none"
    /\ loadErr' = "pending"
    /\ failed' = -1
    /\ outstanding' = {}
    /\ prev' = NoPrev
    /\ lastOp' = [t \in Titles |-> "none"]
    /\ UNCHANGED <<record, nruns>>

Next ==
    \/ \E name \in Names : up(name)
    \/ \E name \in Names : down(name)
    \/ ConnectFail
    \/ ConnectOk
    \/ LoadQueryOk
    \/ \E code \in {"ENOENT", "ER_OTHER"} : LoadQueryFail(code)
    \/ \E err \in BOOLEAN : StepCallback(err)
    \/ \E err \in BOOLEAN : disconnectDb(err)
    \/ \E registry \in Registries : Set(registry)

Spec == Init /\ [][Next]_vars

\* ------------------------------------------------------ vocabulary of the claims
\* Number of registered migrations.
N == Len(migrations)
\* The run has emitted an event of this type.
Emitted(type) == \E k \in DOMAIN events : events[k].type = type
\* Every step of the run succeeded: the slice drained and 'complete' was emitted.
Drained == Emitted("complete")
\* The given name is the title of a registered migration.
Resolved == \E k \in 1..N : migrations[k] = migrationName
\* The 0-based index the given name resolves to.
TargetIndex == (CHOOSE k \in 1..N : migrations[k] = migrationName) - 1
\* No name was given to up()/down().
NoTarget == migrationName \in {Undefined, ""}
\* The titles of the 'migration' events of the run, in order of emission.
MigrationEvents ==
    LET ms == SelectSeq(events, LAMBDA e : e.type = "migration")
    IN  [k \in 1..Len(ms) |-> ms[k].title]
\* The registered migrations at 0-based indices a..b, in registration order.
Indices(a, b) == [k \in 1..(b - a + 1) |-> migrations[a + k]]
\* The same in reverse registration order.
IndicesReversed(a, b) == [k \in 1..(b - a + 1) |-> migrations[b + 2 - k]]

\* ------------------------------------------------------------------ claims
\* C1 (forward completeness): a run of up() with no target from a position p
\* with 0 <= p <= N in which every step succeeds has invoked exactly the
\* migrations at indices p..N-1, in registration order, each once, and has
\* left pos = N.
C1_ForwardCompleteness ==
    (direction = "up" /\ NoTarget /\ Drained /\ startPos \in 0..N)
        => /\ calls = Indices(startPos, N - 1)
           /\ pos = N

\* A drained up() that started from the loaded position 1 of 2 and ran 1 step.
C1_Witness ==
    /\ direction = "up" /\ NoTarget /\ Drained
    /\ loadErr = "none" /\ N = 2 /\ startPos = 1 /\ Len(calls) = 1

\* C2 (backward completeness): a run of down() with no target from a position
\* p with 0 <= p <= N in which every step succeeds has invoked exactly the
\* migrations at indices p-1..0, in reverse registration order, each once,
\* and has left pos = 0.
C2_BackwardCompleteness ==
    (direction = "down" /\ NoTarget /\ Drained /\ startPos \in 0..N)
        => /\ calls = IndicesReversed(0, startPos - 1)
           /\ pos = 0

\* A drained down() that started from the loaded position 2 of 2.
C2_Witness ==
    /\ direction = "down" /\ NoTarget /\ Drained
    /\ loadErr = "none" /\ N = 2 /\ startPos = 2 /\ Len(calls) = 2

\* C3 (targeted up): when the name resolves to index i >= p, a run of
\* up(name) in which every step succeeds has invoked exactly the migrations
\* at indices p..i, in registration order, and has left pos = i + 1.
C3_TargetedUp ==
    (direction = "up" /\ Resolved /\ Drained /\ TargetIndex >= startPos)
        => /\ calls = Indices(startPos, TargetIndex)
           /\ pos = TargetIndex + 1

\* A drained up(name) from position 0 to index 0 of a registry of 2.
C3_Witness ==
    /\ direction = "up" /\ Resolved /\ Drained /\ loadErr = "none"
    /\ N = 2 /\ startPos = 0 /\ TargetIndex = 0 /\ Len(calls) = 1

\* C4 (targeted down): when the name resolves to index i <= p, a run of
\* down(name) in which every step succeeds has invoked exactly the
\* migrations at indices i..p-1, in reverse registration order, and has left
\* pos = i.
C4_TargetedDown ==
    (direction = "down" /\ Resolved /\ Drained /\ TargetIndex <= startPos)
        => /\ Len(calls) = startPos - TargetIndex
           /\ calls = [k \in 1..Len(calls) |-> migrations[startPos + 1 - k]]
           /\ pos = TargetIndex

\* What C5 promises of a run: no operation invoked, no save issued, no
\* 'migration', 'complete' or 'save' event, the persisted row untouched.
NothingDone ==
    /\ calls = <<>>
    /\ ~Emitted("migration") /\ ~Emitted("complete") /\ ~Emitted("save")
    /\ pc \notin {"running", "saving", "connecting-save"}
    /\ record = recordBefore

\* C5 as stated: up(t)/down(t) with any title t that no registered migration
\* has invokes nothing, saves nothing and leaves the persisted row as it was.
C5_UnresolvedAnyTitle ==
    (outcome # "none" /\ migrationName # Undefined /\ ~Resolved) => NothingDone

\* C5 as amended: the same for every non-empty title t that no registered
\* migration has (the empty string is taken as "no target").
C5_UnresolvedTarget ==
    (outcome # "none" /\ migrationName \notin {Undefined, ""} /\ ~Resolved)
        => NothingDone

\* up/down("nonexistent") against 2 or more migrations and an existing row
\* has reached target resolution and ended the process.
C5_Witness ==
    /\ outcome = "exit" /\ migrationName = Nonexistent
    /\ N >= 2 /\ recordBefore.present /\ record = recordBefore

\* C6 (halt on first failure): once the step at slice index k has reported
\* an error, the run is over: exactly the slice entries 0..k were invoked,
\* each once, exactly they have a 'migration' event, the last event is the
\* one 'error' event, and neither 'complete' nor 'save' was emitted.
C6_HaltOnFirstFailure ==
    (failed # -1)
        => /\ pc = "idle"
           /\ calls = SubSeq(fullSlice, 1, failed + 1)
           /\ \A a, b \in DOMAIN calls : calls[a] = calls[b] => a = b
           /\ MigrationEvents = calls
           /\ events[Len(events)] = EvError
           /\ Cardinality({k \in DOMAIN events : events[k].type = "error"}) = 1
           /\ ~Emitted("complete") /\ ~Emitted("save")

\* The first entry of a slice of two failed: the second was never invoked.
C6_Witness == failed = 0 /\ Len(fullSlice) = 2 /\ Len(calls) = 1

\* C7: a run that has stopped has ended its events either with 'complete'
\* followed by 'save' or with 'error', never both 'complete' and 'error',
\* never neither.
C7_TerminalEvents ==
    (pc \in {"idle", "exited"} /\ outcome # "none")
        => LET n == Len(events)
               endsSaved == n >= 2 /\ events[n - 1] = EvComplete /\ events[n] = EvSave
               endsError == n >= 1 /\ events[n] = EvError
           IN  /\ endsSaved # endsError
               /\ ~(Emitted("complete") /\ Emitted("error"))

\* C8: after a run that drained and whose save succeeded, the persisted row
\* is exactly the new position together with the titles of all registered
\* migrations in registration order.
C8_SavedRecord ==
    (outcome = "saved")
        => /\ DOMAIN record = {"present", "migrations", "pos"}
           /\ record.present
           /\ record.pos = pos
           /\ pos = IF direction = "up" THEN startPos + Len(calls)
                                       ELSE startPos - Len(calls)
           /\ record.migrations.kind = "json"
           /\ [k \in 1..Len(record.migrations.value) |->
                   record.migrations.value[k].title] = migrations

\* A saved run that ran a proper, non-empty part of the registry and
\* overwrote a different earlier row.
C8_Witness ==
    /\ outcome = "saved" /\ recordBefore.present /\ recordBefore # record
    /\ Len(calls) > 0 /\ Len(calls) < N

\* C9 (position invariant): whenever no run is in progress,
\* 0 <= pos <= number of registered migrations.
C9_PositionInvariant == pc = "idle" => (0 <= pos /\ pos <= N)

\* C10 (fresh project default): with no persisted row, a load whose query
\* succeeds yields an empty title list and position 0 and no error, the run
\* starts from position 0 and up() runs every registered migration.
C10_FreshDefault ==
    (~recordBefore.present /\ loadErr = "none")
        => /\ loaded = [present |-> TRUE, migrations |-> <<>>, pos |-> 0]
           /\ outcome # "load-error"
           /\ startPos = 0
           /\ (direction = "up" /\ NoTarget /\ Drained)
                  => (calls = migrations /\ pos = N)

\* up() on a fresh project with 2 migrations has run both.
C10_Witness ==
    /\ ~recordBefore.present /\ loadErr = "none"
    /\ direction = "up" /\ NoTarget /\ Drained /\ N = 2 /\ Len(calls) = 2

\* ------------------------------------------- vocabulary of the later claims
\* The connection of the run could not be established.
ConnectionFailed == db = "failed"
\* The SELECT of the run succeeded on a row whose payload cannot be decoded.
DecodeFailed ==
    /\ outcome # "none" /\ loadErr = "none"
    /\ recordBefore.present /\ recordBefore.migrations.kind = "garbage"
\* The run has got past load() into _migrate.
PastLoad == loadErr = "ENOENT" \/ (loadErr = "none" /\ ~DecodeFailed)
\* The run was given a name that _migrate could not resolve.
UnresolvedReached == PastLoad /\ migrationName \notin {Undefined, ""} /\ ~Resolved
\* The run has computed its slice and begun to drain it.
Entered == pc \in {"running", "saving"} \/ Emitted("complete") \/ failed # -1
\* The run is over (or its process has exited).
Stopped == pc \in {"idle", "exited"} /\ outcome # "none"
\* The position the persisted row holds; an absent row counts as 0.
PersistedPos == IF record.present THEN record.pos ELSE 0
\* The sequence s is an initial part of the sequence t.
IsPrefix(s, t) == Len(s) <= Len(t) /\ \A k \in 1..Len(s) : s[k] = t[k]

\* C11: when the connection cannot be established, or the stored payload
\* cannot be decoded, the run emits 'load' and 'error' and nothing else,
\* invokes no operation, issues no save and leaves the row as it was.
C11_LoadFailureAborts ==
    (ConnectionFailed \/ DecodeFailed)
        => /\ events = <<EvLoad, EvError>>
           /\ calls = <<>>
           /\ pc = "idle"
           /\ record = recordBefore

\* up() against 2 migrations and a row with an undecodable payload.
C11_Witness ==
    /\ DecodeFailed /\ N = 2 /\ direction = "up" /\ NoTarget /\ Emitted("error")

\* C12: every fatal condition of a run (connection failure, load query or
\* decode failure, unresolved target, step failure, save failure) has an
\* 'error' event emitted and the run does not continue past it.
C12_FatalsEmitError ==
    (\/ ConnectionFailed
     \/ loadErr \notin {"pending", "none"}
     \/ DecodeFailed
     \/ UnresolvedReached
     \/ failed # -1
     \/ outcome = "save-error")
        => (Emitted("error") /\ pc = "idle")

\* C13 (strictly sequential drain): at most one operation is outstanding,
\* and it is the one invoked last; every entry invoked before it has called
\* back without error; complete and save come only when nothing is
\* outstanding and every entry of the slice was invoked.
C13_SequentialDrain ==
    /\ Cardinality(outstanding) <= 1
    /\ outstanding # {}
           => (pc = "running" /\ calls # <<>> /\ outstanding = {calls[Len(calls)]})
    /\ pc = "running" => outstanding # {}
    /\ \A k \in 1..(Len(calls) - 1) : lastOp[calls[k]] = direction
    /\ (pc \in {"saving", "connecting-save"} \/ Emitted("complete") \/ Emitted("save"))
           => /\ outstanding = {}
              /\ calls = fullSlice
              /\ \A k \in 1..Len(calls) : lastOp[calls[k]] = direction

\* The second entry of a slice is outstanding, the first has called back.
C13_Witness ==
    /\ pc = "running" /\ Len(calls) = 2 /\ outstanding = {calls[2]}
    /\ lastOp[calls[1]] = direction

\* C14 (event ordering): 'load' is the first event and emitted once; the
\* 'migration' events are exactly the invoked slice entries in execution
\* order, each emitted in the step that invokes its operation; 'complete'
\* comes only after every entry has succeeded; no 'migration' event follows
\* 'complete' or 'error'.
C14_EventOrder ==
    /\ [](outcome # "none"
            => /\ events[1] = EvLoad
               /\ \A k \in 2..Len(events) : events[k].type # "load"
               /\ MigrationEvents = calls
               /\ IsPrefix(calls, fullSlice)
               /\ Emitted("complete")
                      => (calls = fullSlice /\ outstanding = {} /\ failed = -1)
               /\ \A a, b \in DOMAIN events :
                      (a < b /\ events[a].type \in {"complete", "error"})
                          => events[b].type # "migration")
    /\ [][(calls' # calls /\ calls' # <<>>)
            => /\ Len(calls') = Len(calls) + 1
               /\ IsPrefix(calls, calls')
               /\ events' = Append(events, EvMigration(calls'[Len(calls')]))]_vars

\* A drained run of two steps: load, migration, migration, complete.
C14_Witness ==
    /\ Drained /\ Len(calls) = 2 /\ Len(events) = 4 /\ pc = "saving"

\* C15 (connection release): a run that has reached its terminal signal
\* ('save' or 'error') has released the connection it acquired.  A run cut
\* short by the exit of the process is left out: its socket goes with the
\* process.
C15_ConnectionReleased == (pc = "idle" /\ outcome # "none") => db # "connected"

\* C16: after every run that ended otherwise than by a failed save, the
\* in-memory pos equals the persisted position.
C16_PositionsAgree ==
    (Stopped /\ outcome # "save-error") => pos = PersistedPos

\* A saved up(t) from position p with t at index i >= p, followed on the
\* same Set by a saved down(t).
UpThenDown ==
    /\ prev.outcome = "saved" /\ prev.direction = "up"
    /\ prev.migrationName = migrationName
    /\ Resolved /\ TargetIndex >= prev.startPos
    /\ direction = "down" /\ Emitted("save")

\* The down run undid the up run: the same migrations in reverse order, and
\* the position the up run started from.
ExactInverse ==
    /\ calls = [k \in 1..Len(prev.calls) |-> prev.calls[Len(prev.calls) + 1 - k]]
    /\ pos = prev.startPos

\* C17 as stated: up(t) followed by down(t) invokes down on exactly the
\* migrations the up run invoked, in reverse order, and restores position p.
C17_DownInvertsUp == UpThenDown => ExactInverse

\* C17 as amended: up(t) followed by down(t) invokes down on exactly one
\* migration, the one at index i (the last the up run invoked), and leaves
\* position i; it is the exact inverse of the up run only when i = p.
C17_DownUndoesTarget ==
    UpThenDown
        => /\ calls = <<migrationName>>
           /\ prev.calls # <<>> /\ calls[1] = prev.calls[Len(prev.calls)]
           /\ startPos = TargetIndex + 1
           /\ pos = TargetIndex
           /\ ExactInverse <=> (prev.startPos = TargetIndex)

\* up("2") from position 0 ran 2 migrations; down("2") undid only the second.
C17_Witness ==
    /\ UpThenDown /\ prev.startPos = 0 /\ TargetIndex = 1
    /\ Len(prev.calls) = 2 /\ Len(calls) = 1 /\ pos = 1

\* C18 (exactly once per direction): over the runs of one Set, no operation
\* completes without error on a migration whose last completed operation
\* was the same one.
C18_ExactlyOnce ==
    [][(pc = "running" /\ failed' = -1 /\ nruns' = nruns /\ nsets' = nsets)
          => lastOp[current] # direction]_vars

\* The cases in which the slice is empty.
EmptyCase ==
    /\ Entered
    /\ \/ direction = "up" /\ NoTarget /\ startPos >= N
       \/ direction = "down" /\ NoTarget /\ startPos = 0
       \/ direction = "up" /\ Resolved /\ TargetIndex < startPos
       \/ direction = "down" /\ Resolved /\ TargetIndex >= startPos

\* up() with no target, on the Set whose previous run was a saved up().
RepeatedUp ==
    /\ prev.outcome = "saved" /\ prev.direction = "up"
    /\ prev.migrationName \in {Undefined, ""}
    /\ direction = "up" /\ NoTarget /\ Entered

\* C19 (idempotent no-op run): a run whose slice is empty invokes nothing,
\* emits 'complete', performs the save and keeps the loaded position, which
\* is the position saved; up() repeated after a saved up() changes neither
\* the position nor the persisted row.
C19_NoOpRun ==
    /\ EmptyCase
           => /\ calls = <<>>
              /\ Drained
              /\ pos = startPos
              /\ pc = "saving" \/ Emitted("save") \/ Emitted("error")
              /\ Emitted("save") => (record.present /\ record.pos = startPos)
    /\ RepeatedUp
           => /\ calls = <<>>
              /\ Drained
              /\ pos = recordBefore.pos
              /\ record = recordBefore

\* up() repeated after a saved up() of 2 migrations, saved again.
C19_Witness ==
    /\ RepeatedUp /\ EmptyCase /\ Emitted("save")
    /\ N = 2 /\ Len(prev.calls) = 2 /\ pos = 2

\* C20: when the step at slice index k fails, no save is issued and the
\* persisted row stays as it was before the run, although the steps before k
\* have completed and pos holds the value for the whole slice.
C20_FailedRunNotSaved ==
    (failed # -1)
        => /\ record = recordBefore
           /\ ~Emitted("save")
           /\ pc = "idle"
           /\ Len(calls) = failed + 1
           /\ \A k \in 1..failed : lastOp[calls[k]] = direction
           /\ pos = IF direction = "up" THEN startPos + Len(fullSlice)
                                       ELSE startPos - Len(fullSlice)
           /\ (direction = "up" /\ NoTarget /\ startPos <= N) => pos = N
           /\ (direction = "down" /\ NoTarget /\ startPos <= N) => pos = 0

\* up() from 0 over 2 migrations: the first completed, the second failed,
\* pos is 2 and the row is as before.
C20_Witness ==
    /\ failed = 1 /\ direction = "up" /\ startPos = 0 /\ pos = 2
    /\ lastOp[calls[1]] = "up" /\ PersistedPos = 0

====
